---- MODULE Spec2Model ----
(***************************************************************************)
(* Model of the letterbox batch image processor (package letterbox).       *)
(*                                                                         *)
(* Processor.Process runs Processor.process over every image path, each in *)
(* its own goroutine of an errgroup.Group, gated by a weighted semaphore   *)
(* of size p.concurrency.  Processor.process decides with unmodified()     *)
(* whether the destination is up to date and otherwise runs the            *)
(* open -> decode -> draw -> create -> encode pipeline.                    *)
(***************************************************************************)
EXTENDS Integers, Sequences, FiniteSets, TLC

\* ---- bounds of the model ------------------------------------------------
MaxItems == 3
MaxCeiling == 2
MaxTime == 2
MaxOpts == 3
MaxDim == 15

\* ---- inputs --------------------------------------------------------------
Paths == {"a", "b"}

\* All image lists of length 0..MaxItems (duplicates allowed).
ImageLists == UNION {[1..k -> Paths] : k \in 0..MaxItems}

\* What os.Stat / os.Open / image.Decode find at a source path.
NoFile == [stat |-> "notexist", mtime |-> 0, data |-> "none"]
BadStat == [stat |-> "error", mtime |-> 0, data |-> "none"]
SrcFiles ==
    {NoFile, BadStat} \cup
    [stat : {"ok"}, mtime : {1}, data : {"image", "corrupt", "unreadable"}]

\* What os.Stat finds at a destination path.
DstFiles ==
    {[stat |-> "notexist", mtime |-> 0], [stat |-> "error", mtime |-> 0]} \cup
    [stat : {"ok"}, mtime : 0..MaxTime]

\* Outcome of one os.Create call and of one jpeg.Encode call of writeImage.
CreateOutcomes == {"ok", "createfail"}
EncodeOutcomes == {"ok", "encodefail"}

VARIABLES
    images,       \* the images argument of Process
    concurrency,  \* p.concurrency
    force,        \* p.force
    src,          \* file system: source path -> file
    dst,          \* file system: filepath.Join(p.dir, path) -> file
    now,          \* file system clock (mtime given to a created file)
    cancelled,    \* ctx.Done() is closed
    pcMain,       \* position of Process: "loop", "wait", "done"
    idx,          \* index of the range loop over images
    cur,          \* sem.cur: slots held
    pc,           \* per list position: "idle", "running" (admitted),
                  \* "decoded" (before os.Create), "created" (before
                  \* jpeg.Encode), "returned", "done", or after a panic
                  \* "panicked" (slot released) and "dead" (wg.Done called)
    result,       \* per list position: error returned by p.process
    err,          \* errg.err (set once)
    ret,          \* value returned by Process
    crashed,      \* the runtime ended the program after a panic
    hist,         \* history of the run (observations only)
    builder,      \* a call of New: options, position, Processor, outcome
    layout,       \* the dimensions step of process: bounds and rectangles
    rerun         \* which Process call over the list this is, and the last one

vars == <<images, concurrency, force, src, dst, now, cancelled, pcMain, idx,
          cur, pc, result, err, ret, crashed, hist, builder, layout, rerun>>

\* What no step of Process changes.
config == <<images, concurrency, force, builder, layout, rerun>>

N == Len(images)

\* ---- the per-item transform ----------------------------------------------

\* Variant of unmodified with the comparison the other way round.
unmodifiedReversed(s, d) ==
    IF d.stat = "notexist" THEN "false"
    ELSE IF s.stat # "ok" THEN "false"
    ELSE IF d.stat # "ok" THEN "panic"
    ELSE IF s.mtime > d.mtime THEN "true"
    ELSE "false"

\* unmodified(src, dst): "true", "false", or "panic" when di is nil (the
\* stat of dst failed with an error other than not-exist) and di.ModTime()
\* is called.
unmodified(s, d) ==
    IF d.stat = "notexist" THEN "false"
    ELSE IF s.stat # "ok" THEN "false"
    ELSE IF d.stat # "ok" THEN "panic"
    ELSE IF d.mtime > s.mtime THEN "true"
    ELSE "false"

\* writeImage, first half: os.Create(path) fails and leaves the file as it
\* is, or truncates or creates it at time t.
osCreate(d, t, io) ==
    IF io = "createfail" THEN [err |-> "creating", dst |-> d]
    ELSE [err |-> "nil", dst |-> [stat |-> "ok", mtime |-> t]]

\* writeImage, second half: jpeg.Encode writes to the created file, which
\* nothing removes, and returns nil or an error.
jpegEncode(d, t, io) ==
    [err |-> IF io = "encodefail" THEN "encoding" ELSE "nil",
     dst |-> [stat |-> "ok", mtime |-> t]]

\* Processor.process on source file s and destination file d, up to the
\* call of writeImage: out "run" with err "nil" goes on to writeImage.
process(s, d, f) ==
    LET u == unmodified(s, d) IN
    IF u = "panic" THEN [out |-> "panic", err |-> "nil"]
    ELSE IF u = "true" /\ ~f THEN [out |-> "skip", err |-> "nil"]
    ELSE IF s.stat # "ok" \/ s.data = "unreadable"
        THEN [out |-> "run", err |-> "opening"]
    ELSE IF s.data # "image"
        THEN [out |-> "run", err |-> "decoding"]
    ELSE [out |-> "run", err |-> "nil"]

\* The errors of process whose wrapped cause is always an *os.PathError
\* (os.Open, os.Create), which names the file; "decoding" wraps the error of
\* image.Decode, which never does, and "encoding" the error of jpeg.Encode.
CauseNamesFile(kind) == kind \in {"opening", "creating"}

\* ---- New and its options ---------------------------------------------------

\* One part of strings.Split(ratio, ":") as strconv.ParseFloat sees it.
Num(v) == [ok |-> TRUE, val |-> v]
Junk == [ok |-> FALSE, val |-> 0]

\* Ratio strings: "16:9", "1:1", "9:16", "16", "16:0", "x:9", "16:x", "x".
AspectStrings ==
    {<<Num(16), Num(9)>>, <<Num(1), Num(1)>>, <<Num(9), Num(16)>>,
     <<Num(16)>>, <<Num(16), Num(0)>>, <<Junk, Num(9)>>, <<Num(16), Junk>>,
     <<Junk>>}

BoolOption(name) == [name : {name}, b : BOOLEAN, n : {0}, s : {<<>>}]
IntOption(name, S) == [name : {name}, b : {FALSE}, n : S, s : {<<>>}]

Options ==
    BoolOption("WithWhiteBackground") \cup BoolOption("WithForce")
    \cup IntOption("WithPadding", {-1, 0, 10})
    \cup IntOption("WithQuality", {-1, 50, 101})
    \cup IntOption("WithConcurrency", {-1, 0, 4})
    \cup [name : {"WithAspect"}, b : {FALSE}, n : {0}, s : AspectStrings]

OptionLists == UNION {[1..k -> Options] : k \in 0..MaxOpts}

\* A float64 ratio a/b, kept as the pair; den = 0 is the quotient by zero.
Ratio(a, b) == [num |-> a, den |-> b]

\* var v Processor; v.concurrency = 1; v.quality = 90; v.dir = dir.
\* padding is kept in percent (the code stores float64(n) / 100).
NewProcessor ==
    [dir |-> "out", white |-> FALSE, aspect |-> Ratio(0, 1), quality |-> 90,
     concurrency |-> 1, padding |-> 0, force |-> FALSE]

\* parseAspect: parts[0] is parsed, then parts[1] is indexed and parsed.
parseAspect(s) ==
    IF ~s[1].ok THEN [out |-> "err", n |-> Ratio(0, 1)]
    ELSE IF Len(s) < 2 THEN [out |-> "panic", n |-> Ratio(0, 1)]
    ELSE IF ~s[2].ok THEN [out |-> "err", n |-> Ratio(0, 1)]
    ELSE [out |-> "nil", n |-> Ratio(s[1].val, s[2].val)]

WithWhiteBackground(p, v) == [out |-> "nil", p |-> [p EXCEPT !.white = v]]

\* Variant of WithForce that writes the background field.
WithForceAliased(p, v) == [out |-> "nil", p |-> [p EXCEPT !.white = v]]

WithForce(p, v) == [out |-> "nil", p |-> [p EXCEPT !.force = v]]

WithPadding(p, n) == [out |-> "nil", p |-> [p EXCEPT !.padding = n]]

\* n, err := parseAspect(ratio); p.aspect = n; return err: an error stores
\* the 0 that came with it, a panic leaves before the assignment.
WithAspect(p, ratio) ==
    LET r == parseAspect(ratio) IN
    [out |-> r.out,
     p |-> IF r.out = "panic" THEN p ELSE [p EXCEPT !.aspect = r.n]]

WithQuality(p, n) == [out |-> "nil", p |-> [p EXCEPT !.quality = n]]

WithConcurrency(p, n) == [out |-> "nil", p |-> [p EXCEPT !.concurrency = n]]

\* o(&v) for one option o.
ApplyOption(p, o) ==
    CASE o.name = "WithWhiteBackground" -> WithWhiteBackground(p, o.b)
      [] o.name = "WithForce" -> WithForce(p, o.b)
      [] o.name = "WithPadding" -> WithPadding(p, o.n)
      [] o.name = "WithAspect" -> WithAspect(p, o.s)
      [] o.name = "WithQuality" -> WithQuality(p, o.n)
      [] o.name = "WithConcurrency" -> WithConcurrency(p, o.n)

\* No call of New is modelled.
NoBuilder == [opts |-> <<>>, k |-> 0, p |-> NewProcessor, out |-> "none"]

\* No dimensions step is modelled.
NoLayout == [stage |-> "none"]

\* The first Process call over the list: there is no earlier one.
FirstRun ==
    [round |-> 1, force |-> FALSE, result |-> <<>>, out |-> <<>>,
     dst |-> [p \in Paths |-> [stat |-> "notexist", mtime |-> 0]]]

\* ---- dimensions ---------------------------------------------------------------

\* Go's integer division and float-to-int conversion: toward zero (d > 0).
Trunc(n, d) == IF n >= 0 THEN n \div d ELSE -((-n) \div d)

\* image.Rect: the rectangle with the given corners, put in canonical order.
Rect(x0, y0, x1, y1) ==
    [x0 |-> IF x0 <= x1 THEN x0 ELSE x1, y0 |-> IF y0 <= y1 THEN y0 ELSE y1,
     x1 |-> IF x0 <= x1 THEN x1 ELSE x0, y1 |-> IF y0 <= y1 THEN y1 ELSE y0]

\* Ratios of the dimensions step: the common ones, for which the float64
\* result equals the exact quotient truncated, and two for which it leaves
\* it: 9:7 (a width of 9 gives the height 6 for 7) and 15:11 (a height of 11
\* gives the width 14 for 15).
LayoutRatios ==
    {Ratio(16, 9), Ratio(9, 16), Ratio(1, 1), Ratio(4, 3), Ratio(3, 4),
     Ratio(9, 7), Ratio(15, 11)}

\* Padding percentages of the dimensions step, as WithPadding(n) takes them:
\* none, small ones, and large ones (WithPadding sets no upper limit), among
\* them 3280, with which an extent of 15 is the smallest one whose float64
\* result leaves the exact quotient (506 for 507), as 300 does with 201.
LayoutPaddings == {0, 10, 50, 201, 3280}

\* ---- float64 arithmetic of aspect and padding ----------------------------
\* A non-negative binary number is kept exactly as its integer part and the
\* bits of its fraction, frac[k] of weight 2^-k; a float64 is such a number
\* with 53 significant bits, and every operation rounds its exact result to
\* the nearest one, ties to the even one.

\* Significant bits of a float64.
Mantissa == 53

RECURSIVE BitLen(_)
\* Number of bits of the integer m >= 0.
BitLen(m) == IF m = 0 THEN 0 ELSE 1 + BitLen(m \div 2)

\* Position of the first 1 of a bit sequence that has one.
FirstOne(f) ==
    CHOOSE k \in 1..Len(f) : f[k] = 1 /\ \A j \in 1..(k - 1) : f[j] = 0

IsZero(x) == x.int = 0 /\ \A k \in 1..Len(x.frac) : x.frac[k] = 0

\* One unit added in the last place of a fraction: the bits and the carry.
\* The trailing ones become zeros and the last zero becomes one.
IncFrac(f) ==
    LET zeros == {k \in 1..Len(f) : f[k] = 0} IN
    IF zeros = {} THEN [bits |-> [k \in 1..Len(f) |-> 0], carry |-> 1]
    ELSE LET z == CHOOSE k \in zeros : \A j \in zeros : j <= k IN
         [bits |-> [k \in 1..Len(f) |->
                       IF k < z THEN f[k] ELSE IF k = z THEN 1 ELSE 0],
          carry |-> 0]

\* x plus one unit in its last place.
Inc(x) ==
    LET r == IncFrac(x.frac) IN [int |-> x.int + r.carry, frac |-> r.bits]

\* Fraction bits a float64 of the magnitude of x # 0 has.
Kept(x) ==
    IF x.int >= 1 THEN Mantissa - BitLen(x.int)
    ELSE Mantissa - 1 + FirstOne(x.frac)

\* x cut after k fraction bits and rounded up when up says so.
RoundAt(x, k, up) ==
    LET cut == [int |-> x.int, frac |-> SubSeq(x.frac, 1, k)] IN
    IF up THEN Inc(cut) ELSE cut

\* The float64 nearest to the exact x, ties to even.
RoundF(x) ==
    IF IsZero(x) THEN [int |-> 0, frac |-> <<>>]
    ELSE LET k == Kept(x) IN
         IF Len(x.frac) <= k THEN x
         ELSE LET last == IF k = 0 THEN x.int % 2 ELSE x.frac[k]
                  sticky == \E j \in (k + 2)..Len(x.frac) : x.frac[j] = 1 IN
              RoundAt(x, k, x.frac[k + 1] = 1 /\ (sticky \/ last = 1))

RECURSIVE DivBits(_, _, _)
\* k bits of the fraction r / d, r < d, by long division, and the remainder.
DivBits(r, d, k) ==
    IF k = 0 THEN [bits |-> <<>>, rem |-> r]
    ELSE IF k = 1
        THEN LET b == IF 2 * r >= d THEN 1 ELSE 0 IN
             [bits |-> <<b>>, rem |-> 2 * r - b * d]
    ELSE LET h == DivBits(r, d, k \div 2)
             t == DivBits(h.rem, d, k - k \div 2) IN
         [bits |-> h.bits \o t.bits, rem |-> t.rem]

RECURSIVE LeadZeros(_, _)
\* Position of the first 1 of the fraction r / d, 0 < r < d.
LeadZeros(r, d) == IF 2 * r >= d THEN 1 ELSE 1 + LeadZeros(2 * r, d)

\* float64(n) / float64(d) for integers n >= 0, d > 0: the quotient rounded.
FDiv(n, d) ==
    LET q == n \div d
        r == n % d
        k == IF q >= 1 THEN Mantissa - BitLen(q)
             ELSE IF r = 0 THEN 0
             ELSE Mantissa - 1 + LeadZeros(r, d)
        t == DivBits(r, d, k)
        last == IF k = 0 THEN q % 2 ELSE t.bits[k]
        x == [int |-> q, frac |-> t.bits] IN
    IF 2 * t.rem > d \/ (2 * t.rem = d /\ last = 1) THEN Inc(x) ELSE x

RECURSIVE MulFrac(_, _, _)
\* The fraction f times the integer w plus the carry c coming from below:
\* the bits of the product from the last place up, as the carries run, and
\* the carry into the integer part.
MulFrac(f, w, c) ==
    IF f = <<>> THEN [up |-> <<>>, carry |-> c]
    ELSE IF Len(f) = 1
        THEN [up |-> <<(f[1] * w + c) % 2>>, carry |-> (f[1] * w + c) \div 2]
    ELSE LET m == Len(f) \div 2
             lo == MulFrac(SubSeq(f, m + 1, Len(f)), w, c)
             hi == MulFrac(SubSeq(f, 1, m), w, lo.carry) IN
         [up |-> lo.up \o hi.up, carry |-> hi.carry]

\* A bit sequence in the opposite order.
Reverse(f) == [k \in 1..Len(f) |-> f[Len(f) + 1 - k]]

\* float64(w) * x for an integer w >= 0.
FMul(w, x) ==
    LET r == MulFrac(x.frac, w, 0) IN
    RoundF([int |-> x.int * w + r.carry, frac |-> Reverse(r.up)])

\* float64(w) + x for an integer w >= 0.
FAdd(w, x) == RoundF([int |-> x.int + w, frac |-> x.frac])

\* float64(w) - x for an integer w > x.
FSub(w, x) ==
    IF \A k \in 1..Len(x.frac) : x.frac[k] = 0
    THEN RoundF([int |-> w - x.int, frac |-> x.frac])
    ELSE RoundF(Inc([int |-> w - x.int - 1,
                     frac |-> [k \in 1..Len(x.frac) |-> 1 - x.frac[k]]]))

\* int(w + w * padding) with padding = float64(n) / 100, for an extent
\* w >= 0: the quotient, the product and the sum are each rounded to
\* float64, and int() truncates toward zero.  A negative n makes the
\* product negative.
Padded(w, n) ==
    IF n >= 0 THEN FAdd(w, FMul(w, FDiv(n, 100))).int
    ELSE LET m == FMul(w, FDiv(-n, 100)) IN
         IF m.int >= w THEN -(m.int - w) ELSE FSub(w, m).int

\* ---- float64 division ---------------------------------------------------
\* The divisor of aspect is itself a float64, so its 53 bits are kept as a
\* natural number in limbs, highest first, and the quotient comes bit by bit
\* from a long division on such numbers.

\* Bits of a limb; a number has three limbs, room for twice a 53-bit number.
LimbBits == 20
LimbBase == 2^LimbBits

\* The bits of the integer m >= 0, highest first.
IntBits(m) == [k \in 1..BitLen(m) |-> (m \div 2^(BitLen(m) - k)) % 2]

\* k zero bits.
ZeroBits(k) == [j \in 1..k |-> 0]

RECURSIVE BitsVal(_)
\* The integer whose bits, highest first, are f.
BitsVal(f) ==
    IF Len(f) = 0 THEN 0
    ELSE IF Len(f) = 1 THEN f[1]
    ELSE LET m == Len(f) \div 2
             hi == BitsVal(SubSeq(f, 1, m)) IN
         (IF hi = 0 THEN 0 ELSE hi * 2^(Len(f) - m))
             + BitsVal(SubSeq(f, m + 1, Len(f)))

\* The bits of x # 0 from its first 1 on: its significand.
Significand(x) ==
    LET s == IntBits(x.int) \o x.frac IN SubSeq(s, FirstOne(s), Len(s))

\* The number with the bits f, highest first, in three limbs.
ToLimbs(f) ==
    LET g == ZeroBits(3 * LimbBits - Len(f)) \o f IN
    <<BitsVal(SubSeq(g, 1, LimbBits)),
      BitsVal(SubSeq(g, LimbBits + 1, 2 * LimbBits)),
      BitsVal(SubSeq(g, 2 * LimbBits + 1, 3 * LimbBits))>>

\* 2 * A + b for a bit b.
Twice(A, b) ==
    <<(2 * A[1] + A[2] \div (LimbBase \div 2)) % LimbBase,
      (2 * A[2] + A[3] \div (LimbBase \div 2)) % LimbBase,
      (2 * A[3] + b) % LimbBase>>

\* A < B.
Less(A, B) ==
    \/ A[1] < B[1]
    \/ A[1] = B[1] /\ A[2] < B[2]
    \/ A[1] = B[1] /\ A[2] = B[2] /\ A[3] < B[3]

\* A - B for A >= B: a limb borrows when the limbs below it are less.
Minus(A, B) ==
    <<(A[1] - B[1] + LimbBase
          - (IF A[2] < B[2] \/ (A[2] = B[2] /\ A[3] < B[3]) THEN 1 ELSE 0))
          % LimbBase,
      (A[2] - B[2] + LimbBase - (IF A[3] < B[3] THEN 1 ELSE 0)) % LimbBase,
      (A[3] - B[3] + LimbBase) % LimbBase>>

RECURSIVE BigDiv(_, _, _)
\* Long division by M: the remainder R takes in the bits n of the dividend
\* one by one; the bits of the quotient and the remainder left.
BigDiv(R, M, n) ==
    IF Len(n) = 0 THEN [q |-> <<>>, rem |-> R]
    ELSE IF Len(n) = 1
        THEN IF Less(Twice(R, n[1]), M)
             THEN [q |-> <<0>>, rem |-> Twice(R, n[1])]
             ELSE [q |-> <<1>>, rem |-> Minus(Twice(R, n[1]), M)]
    ELSE LET h == BigDiv(R, M, SubSeq(n, 1, Len(n) \div 2))
             t == BigDiv(h.rem, M, SubSeq(n, Len(n) \div 2 + 1, Len(n))) IN
         [q |-> h.q \o t.q, rem |-> t.rem]

RECURSIVE BigLead(_, _)
\* Position of the first 1 of the fraction R / M, 0 < R < M.
BigLead(R, M) ==
    IF ~Less(Twice(R, 0), M) THEN 1 ELSE 1 + BigLead(Twice(R, 0), M)

\* float64(w) / x for an integer w >= 0 and a float64 x > 0: with x = M / 2^L
\* the quotient is w * 2^L / M, rounded to 53 bits.
FQuo(w, x) ==
    IF w = 0 THEN [int |-> 0, frac |-> <<>>]
    ELSE LET M == ToLimbs(Significand(x))
             i == BigDiv(<<0, 0, 0>>, M,
                         IntBits(w) \o ZeroBits(Len(x.frac)))
             whole == BitsVal(i.q)
             k == IF whole >= 1 THEN Mantissa - BitLen(whole)
                  ELSE Mantissa - 1 + BigLead(i.rem, M)
             f == BigDiv(i.rem, M, ZeroBits(k))
             last == IF k = 0 THEN whole % 2 ELSE f.q[k]
             y == [int |-> whole, frac |-> f.q] IN
         IF Less(M, Twice(f.rem, 0)) \/ (Twice(f.rem, 0) = M /\ last = 1)
         THEN Inc(y) ELSE y

\* Variant of aspect that works with the ratio put larger over smaller, as
\* a parseAspect that swaps its parts would hand it over.
aspectNormalized(r, a) ==
    LET w == r.x1
        h == r.y1
        hi == IF a.num >= a.den THEN a.num ELSE a.den
        lo == IF a.num >= a.den THEN a.den ELSE a.num IN
    IF w > h THEN Rect(0, 0, w, FQuo(w, FDiv(hi, lo)).int)
    ELSE Rect(0, 0, FMul(h, FDiv(hi, lo)).int, h)

\* aspect(r, aspect) for the ratio a of positive parts, aspect being the
\* float64 a.num / a.den of parseAspect: the wider side is kept and the other
\* is derived in float64, h = w / aspect or w = h * aspect, and cut by int().
aspect(r, a) ==
    LET w == r.x1
        h == r.y1 IN
    IF w > h THEN Rect(0, 0, w, FQuo(w, FDiv(a.num, a.den)).int)
    ELSE Rect(0, 0, FMul(h, FDiv(a.num, a.den)).int, h)

\* padding(r, padding): image.Rect(0, 0, int(w+(w*padding)), int(h+(h*padding))).
padding(r, n) == Rect(0, 0, Padded(r.x1, n), Padded(r.y1, n))

\* centered(s, d)
centered(s, d) ==
    LET sw == s.x1
        sh == s.y1
        dw == d.x1
        dh == d.y1 IN
    Rect(Trunc(dw, 2) - Trunc(sw, 2), Trunc(dh, 2) - Trunc(sh, 2),
         Trunc(dw, 2) + dw, Trunc(dh, 2) + sh)

\* ---- Process ---------------------------------------------------------------

\* Positions of a goroutine that holds its slot: inside p.process.
Holding == {"running", "decoded", "created"}

InFlight == {i \in 1..N : pc[i] \in Holding}

\* Paths named by the image list.
Used == {images[i] : i \in 1..N}

\* State after New and before the first statement of Process; the file
\* system is whatever the caller left.  Paths the list does not name are
\* never touched and are left absent.
InitRun ==
    /\ images \in ImageLists
    /\ concurrency \in 0..MaxCeiling
    /\ force \in BOOLEAN
    /\ src \in [Paths -> SrcFiles]
    /\ dst \in [Paths -> DstFiles]
    /\ \A p \in Paths \ Used : src[p] = NoFile /\ dst[p].stat = "notexist"
    /\ now = MaxTime
    /\ cancelled = FALSE
    /\ pcMain = "loop"
    /\ idx = 1
    /\ cur = 0
    /\ pc = [i \in 1..N |-> "idle"]
    /\ result = [i \in 1..N |-> "nil"]
    /\ err = "nil"
    /\ ret = "none"
    /\ crashed = FALSE
    /\ hist = [preCancel |-> FALSE, lateAdmit |-> FALSE, cancelAdmit |-> FALSE,
               firstFail |-> 0,
               out |-> [i \in 1..N |-> "none"],
               calls |-> [p \in Paths |-> 0]]
    /\ builder = NoBuilder
    /\ layout = NoLayout
    /\ rerun = FirstRun

\* Batches: any list, over sources that are absent or good and destinations
\* that are absent, unreadable to stat or fresh; an absent source has no
\* destination (process never looks further than the failed source).  The
\* two paths are interchangeable, so the first item is always named "a".
\* Batches run without force, so that items are skipped as well as
\* processed; forced transforms are those of single items and of reruns.
BatchSrc == {f \in SrcFiles : f = NoFile \/ f.data = "image"}
BatchDst == {f \in DstFiles : f.stat = "ok" => f.mtime = MaxTime}

Init ==
    /\ InitRun
    /\ ~force
    /\ N >= 1 => images[1] = "a"
    /\ \A p \in Paths : src[p] = NoFile => dst[p].stat = "notexist"
    /\ \A p \in Paths : src[p] \in BatchSrc /\ dst[p] \in BatchDst

\* Single items: every combination of source and destination file.
InitItem ==
    /\ InitRun
    /\ N <= 1

\* ctx is cancelled by the caller, at any moment of the run.
Cancel ==
    /\ ~crashed
    /\ ~cancelled
    /\ pcMain # "done"
    /\ cancelled' = TRUE
    /\ hist' = [hist EXCEPT !.preCancel = (pcMain = "loop" /\ idx = 1)]
    /\ UNCHANGED <<config, src, dst, now, pcMain, idx, cur, pc, result, err,
                   ret, crashed>>

\* Variant of the semaphore that keeps one slot back.
CanAcquireStrict == cur + 1 < concurrency

\* Variant of the semaphore that lets one more holder in.
CanAcquireOneMore == cur <= concurrency

\* sem.Acquire(ctx, 1) can return nil: a slot is free.  Process has no ctx
\* check of its own, and x/sync's semaphore documents that with ctx already
\* done "Acquire may still succeed without blocking" (releases before v0.7.0
\* always take the free slot, later ones always fail).  Both outcomes are
\* kept: Admit needs only a free slot, AcquireFail only a done ctx.
CanAcquire == cur < concurrency

\* Variant of the loop that stops at the first recorded failure.
HasNextFailFast == idx <= N /\ err = "nil"

\* Variant of the loop that runs its body before testing the length.
HasNextDoWhile == idx <= N \/ idx = 1

\* for _, path := range images: the loop has another element.
HasNext == idx <= N

\* Variant of the loop that walks the list from its end.
PositionFromEnd == N + 1 - idx

\* The list position the range loop is at.
Position == idx

\* sem.Acquire returned nil, then errg.Go starts the goroutine for images[idx].
Admit ==
    /\ ~crashed
    /\ pcMain = "loop"
    /\ HasNext
    /\ CanAcquire
    /\ cur' = cur + 1
    /\ pc' = [pc EXCEPT ![Position] = "running"]
    /\ idx' = idx + 1
    /\ hist' = [hist EXCEPT !.lateAdmit = @ \/ (err # "nil"),
                            !.cancelAdmit = @ \/ cancelled]
    /\ UNCHANGED <<config, src, dst, now, cancelled, pcMain, result, err, ret,
                   crashed>>

\* sem.Acquire returned ctx.Err(): Process returns it at once.
AcquireFail ==
    /\ ~crashed
    /\ pcMain = "loop"
    /\ HasNext
    /\ cancelled
    /\ pcMain' = "done"
    /\ ret' = "canceled"
    /\ UNCHANGED <<config, src, dst, now, cancelled, idx, cur, pc, result, err,
                   crashed, hist>>

\* The range loop is over: Process calls errg.Wait().
LoopExit ==
    /\ ~crashed
    /\ pcMain = "loop"
    /\ ~HasNext
    /\ pcMain' = "wait"
    /\ UNCHANGED <<config, src, dst, now, cancelled, idx, cur, pc, result, err,
                   ret, crashed, hist>>

\* Variant of Wait that does not wait.
WaitDoneEager == TRUE

\* errg.Wait(): wg.Wait() until every started goroutine is done.
WaitDone == \A i \in 1..N : pc[i] \in {"idle", "done", "dead"}

Wait ==
    /\ ~crashed
    /\ pcMain = "wait"
    /\ WaitDone
    /\ pcMain' = "done"
    /\ ret' = err
    /\ UNCHANGED <<config, src, dst, now, cancelled, idx, cur, pc, result, err,
                   crashed, hist>>

\* Variant without the copy: the goroutine reads the loop variable.
CapturedShared(i) == images[IF idx <= N THEN idx ELSE N]

\* path := path: the goroutine of position i owns its copy of the path.
Captured(i) == images[i]

\* Variant of the goroutine that releases after a successful process only.
ReleaseOnSuccess(r) == IF r.err = "nil" THEN 1 ELSE 0

\* defer sem.Release(1): the slots the goroutine gives back when process
\* returned r, whatever r is.
Release(r) == 1

\* The goroutine of position i runs p.process(path) up to writeImage: the
\* stat of the destination is the only thing it reads that another
\* goroutine writes.  A skip or an error returns, and the deferred
\* sem.Release(1) gives the slot back; a panic unwinds through the same
\* deferred call before the runtime ends the program.
Run(i) ==
    /\ ~crashed
    /\ pc[i] = "running"
    /\ LET p == Captured(i)
           r == process(src[p], dst[p], force) IN
       /\ hist' = [hist EXCEPT !.out[i] = r.out, !.calls[p] = @ + 1]
       /\ IF r.out = "panic"
          THEN /\ cur' = cur - Release(r)
               /\ pc' = [pc EXCEPT ![i] = "panicked"]
               /\ UNCHANGED result
          ELSE IF r.out = "run" /\ r.err = "nil"
          THEN /\ pc' = [pc EXCEPT ![i] = "decoded"]
               /\ UNCHANGED <<cur, result>>
          ELSE /\ result' = [result EXCEPT ![i] = r.err]
               /\ cur' = cur - Release(r)
               /\ pc' = [pc EXCEPT ![i] = "returned"]
    /\ UNCHANGED <<config, src, dst, now, cancelled, pcMain, idx, err, ret,
                   crashed>>

\* The goroutine of position i calls os.Create in writeImage.
Create(i) ==
    /\ ~crashed
    /\ pc[i] = "decoded"
    /\ \E io \in CreateOutcomes :
        LET p == Captured(i)
            r == osCreate(dst[p], now, io) IN
        /\ dst' = [dst EXCEPT ![p] = r.dst]
        /\ IF r.err = "nil"
           THEN /\ pc' = [pc EXCEPT ![i] = "created"]
                /\ UNCHANGED <<cur, result>>
           ELSE /\ result' = [result EXCEPT ![i] = r.err]
                /\ cur' = cur - Release(r)
                /\ pc' = [pc EXCEPT ![i] = "returned"]
    /\ UNCHANGED <<config, src, now, cancelled, pcMain, idx, err, ret, crashed,
                   hist>>

\* The goroutine of position i calls jpeg.Encode in writeImage and returns.
Encode(i) ==
    /\ ~crashed
    /\ pc[i] = "created"
    /\ \E io \in EncodeOutcomes :
        LET p == Captured(i)
            r == jpegEncode(dst[p], now, io) IN
        /\ dst' = [dst EXCEPT ![p] = r.dst]
        /\ result' = [result EXCEPT ![i] = r.err]
        /\ cur' = cur - Release(r)
        /\ pc' = [pc EXCEPT ![i] = "returned"]
    /\ UNCHANGED <<config, src, now, cancelled, pcMain, idx, err, ret, crashed,
                   hist>>

\* The panic of the goroutine of position i goes on unwinding: after the
\* deferred sem.Release(1) comes the deferred wg.Done() of the group's
\* wrapper; no error is handed to the group.
Unwind(i) ==
    /\ ~crashed
    /\ pc[i] = "panicked"
    /\ pc' = [pc EXCEPT ![i] = "dead"]
    /\ UNCHANGED <<config, src, dst, now, cancelled, pcMain, idx, cur, result,
                   err, ret, crashed, hist>>

\* The runtime ends the program once the panic of a goroutine has unwound;
\* until then Process and the other goroutines go on.
Die ==
    /\ ~crashed
    /\ \E i \in 1..N : pc[i] = "dead"
    /\ crashed' = TRUE
    /\ UNCHANGED <<config, src, dst, now, cancelled, pcMain, idx, cur, pc,
                   result, err, ret, hist>>

\* errgroup: g.errOnce.Do stores the first non-nil error only.
errOnce(e, r) == IF r # "nil" /\ e = "nil" THEN r ELSE e

\* The goroutine of position i hands its error to the group, then wg.Done().
Report(i) ==
    /\ ~crashed
    /\ pc[i] = "returned"
    /\ err' = errOnce(err, result[i])
    /\ pc' = [pc EXCEPT ![i] = "done"]
    /\ hist' = [hist EXCEPT !.firstFail =
                    IF result[i] # "nil" /\ @ = 0 THEN i ELSE @]
    /\ UNCHANGED <<config, src, dst, now, cancelled, pcMain, idx, cur, result,
                   ret, crashed>>

Next ==
    \/ Cancel
    \/ Admit
    \/ AcquireFail
    \/ LoopExit
    \/ Wait
    \/ \E i \in 1..N : Run(i)
    \/ \E i \in 1..N : Create(i)
    \/ \E i \in 1..N : Encode(i)
    \/ \E i \in 1..N : Report(i)
    \/ \E i \in 1..N : Unwind(i)
    \/ Die

Spec == Init /\ [][Next]_vars

\* Runs whose context is never cancelled, under a scheduler that lets some
\* enabled step happen: a goroutine that can run is run, Process goes on
\* when its Acquire or Wait can return.
NextQuiet ==
    \/ Admit
    \/ LoopExit
    \/ Wait
    \/ \E i \in 1..N : Run(i)
    \/ \E i \in 1..N : Create(i)
    \/ \E i \in 1..N : Encode(i)
    \/ \E i \in 1..N : Report(i)
    \/ \E i \in 1..N : Unwind(i)
    \/ Die

SpecLive == Init /\ [][NextQuiet]_vars /\ WF_vars(NextQuiet)

\* ---- New as a state machine ------------------------------------------------

\* The variables of Process while no Process call is modelled.
NoRun ==
    /\ images = <<>>
    /\ concurrency = 1
    /\ force = FALSE
    /\ src = [p \in Paths |-> NoFile]
    /\ dst = [p \in Paths |-> [stat |-> "notexist", mtime |-> 0]]
    /\ now = MaxTime
    /\ cancelled = FALSE
    /\ pcMain = "none"
    /\ idx = 1
    /\ cur = 0
    /\ pc = <<>>
    /\ result = <<>>
    /\ err = "nil"
    /\ ret = "none"
    /\ crashed = FALSE
    /\ hist = [preCancel |-> FALSE, lateAdmit |-> FALSE, cancelAdmit |-> FALSE,
               firstFail |-> 0, out |-> <<>>,
               calls |-> [p \in Paths |-> 0]]
    /\ rerun = FirstRun

run == <<images, concurrency, force, src, dst, now, cancelled, pcMain, idx,
         cur, pc, result, err, ret, crashed, hist, rerun>>

\* New(dir, options...) is entered.
InitNew ==
    /\ NoRun
    /\ layout = NoLayout
    /\ \E os \in OptionLists :
        builder = [opts |-> os, k |-> 1, p |-> NewProcessor, out |-> "building"]

\* One iteration of the loop over options: an error returns (nil, err), a
\* panic leaves New without a result.
NewApply ==
    /\ builder.out = "building"
    /\ builder.k <= Len(builder.opts)
    /\ LET r == ApplyOption(builder.p, builder.opts[builder.k]) IN
       builder' = [builder EXCEPT
            !.p = r.p,
            !.k = @ + 1,
            !.out = IF r.out = "nil" THEN "building" ELSE r.out]
    /\ UNCHANGED <<run, layout>>

\* return &v, nil
NewReturn ==
    /\ builder.out = "building"
    /\ builder.k > Len(builder.opts)
    /\ builder' = [builder EXCEPT !.out = "ok"]
    /\ UNCHANGED <<run, layout>>

NextNew == NewApply \/ NewReturn

SpecNew == InitNew /\ [][NextNew]_vars

\* ---- the dimensions step as a state machine ---------------------------------

NoRect == Rect(0, 0, 0, 0)

\* sb := src.Bounds() of a decoded image, with the Processor's ratio and
\* padding.
InitLayout ==
    /\ NoRun
    /\ builder = NoBuilder
    /\ \E w \in 1..MaxDim, h \in 1..MaxDim, a \in LayoutRatios,
          n \in LayoutPaddings :
        layout = [stage |-> "bounds", sb |-> Rect(0, 0, w, h), a |-> a,
                  n |-> n, ab |-> NoRect, db |-> NoRect, dr |-> NoRect]

\* db := aspect(sb, p.aspect)
LayoutAspect ==
    /\ layout.stage = "bounds"
    /\ layout' = [layout EXCEPT !.stage = "aspect",
                                 !.ab = aspect(layout.sb, layout.a),
                                 !.db = aspect(layout.sb, layout.a)]
    /\ UNCHANGED <<run, builder>>

\* db = padding(db, p.padding)
LayoutPadding ==
    /\ layout.stage = "aspect"
    /\ layout' = [layout EXCEPT !.stage = "padded",
                                 !.db = padding(layout.db, layout.n)]
    /\ UNCHANGED <<run, builder>>

\* dr := centered(sb, db)
LayoutCentered ==
    /\ layout.stage = "padded"
    /\ layout' = [layout EXCEPT !.stage = "centered",
                                 !.dr = centered(layout.sb, layout.db)]
    /\ UNCHANGED <<run, builder>>

NextLayout == LayoutAspect \/ LayoutPadding \/ LayoutCentered

SpecLayout == InitLayout /\ [][NextLayout]_vars

SpecItem == InitItem /\ [][Next]_vars

\* ---- the program run twice over the same list ----------------------------------

\* Lists the second run goes over again.
MaxRerunItems == 2

\* Sources that are absent (os.Open fails), corrupt (image.Decode fails) or
\* good, and destinations that are absent or there with any age; an absent
\* source has no destination.
RerunSrc == {f \in SrcFiles : f = NoFile \/ f.data \in {"image", "corrupt"}}
RerunDst == {f \in DstFiles : f.stat # "error"}

\* The first run of the program: a list of one or more items, a ceiling
\* that lets them in.
InitRerun ==
    /\ InitRun
    /\ N \in 1..MaxRerunItems
    /\ images[1] = "a"
    /\ concurrency >= 1
    /\ \A p \in Paths : src[p] \in RerunSrc /\ dst[p] \in RerunDst
    /\ \A p \in Paths : src[p] = NoFile => dst[p].stat = "notexist"

\* The program is run again on the same list and the same source files
\* once the first Process call has returned and its transforms are over:
\* New builds a Processor from the flags (force may differ), Process gets a
\* new context, semaphore and group, and the clock has moved on.
Again ==
    /\ rerun.round = 1
    /\ ~crashed
    /\ pcMain = "done"
    /\ \A i \in 1..N : pc[i] = "done"
    /\ rerun' = [round |-> 2, force |-> force, result |-> result,
                 out |-> hist.out, dst |-> dst]
    /\ force' \in BOOLEAN
    /\ now' = now + 1
    /\ pcMain' = "loop"
    /\ idx' = 1
    /\ cur' = 0
    /\ pc' = [i \in 1..N |-> "idle"]
    /\ result' = [i \in 1..N |-> "nil"]
    /\ err' = "nil"
    /\ ret' = "none"
    /\ hist' = [preCancel |-> FALSE, lateAdmit |-> FALSE, cancelAdmit |-> FALSE,
                firstFail |-> 0,
                out |-> [i \in 1..N |-> "none"],
                calls |-> [p \in Paths |-> 0]]
    /\ UNCHANGED <<images, concurrency, src, dst, cancelled, crashed, builder,
                   layout>>

\* The command line program passes context.Background(): no cancellation.
\* No stat of a destination fails in these runs, so nothing panics.
NextRerun ==
    \/ Admit
    \/ LoopExit
    \/ Wait
    \/ \E i \in 1..N : Run(i)
    \/ \E i \in 1..N : Create(i)
    \/ \E i \in 1..N : Encode(i)
    \/ \E i \in 1..N : Report(i)
    \/ Again

SpecRerun == InitRerun /\ [][NextRerun]_vars

\* ---- properties ----------------------------------------------------------

\* Number of positions of the list that name path p.
Count(p) == Cardinality({i \in 1..N : images[i] = p})

Returned == pcMain = "done"

\* C1: for every ceiling >= 1, the number of transforms holding a slot
\* (admitted, not yet released) never exceeds the ceiling.
C1_InFlightBounded ==
    concurrency >= 1 => Cardinality(InFlight) <= concurrency

\* The ceiling is reached while another item waits for a vacancy.
C1_Witness ==
    /\ concurrency >= 1
    /\ Cardinality(InFlight) = concurrency
    /\ pcMain = "loop" /\ HasNext

\* C2: in a run that is never cancelled, Process returns nil iff every
\* transform returned, and returned nil; otherwise it returns the error of
\* the transform that was first to hand a failure to the group, and later
\* failures are dropped.
C2_FirstError ==
    (Returned /\ ~cancelled) =>
        /\ (ret = "nil") <=>
              (\A i \in 1..N : pc[i] = "done" /\ result[i] = "nil")
        /\ ret # "nil" =>
              /\ hist.firstFail \in 1..N
              /\ ret = result[hist.firstFail]

\* C3: in a run that is never cancelled, when Process returns no admitted
\* transform is still in flight and no slot is held.
C3_DrainedAtReturn ==
    (Returned /\ ~cancelled) =>
        /\ \A i \in 1..N : pc[i] \notin Holding \cup {"returned", "panicked"}
        /\ cur = 0

\* Process returned a recorded error after several transforms completed.
C3_Witness ==
    /\ Returned /\ ~cancelled /\ N >= 2
    /\ ret \notin {"nil", "none"}
    /\ \A i \in 1..N : pc[i] = "done"

\* C4 (as claimed): no item is admitted once a failure has been recorded.
C4_NoAdmitAfterFailure == ~hist.lateAdmit

\* C4 (amended): a recorded failure does not stop admission; whenever
\* Process returns a transform's error, every item of the list, also those
\* admitted after the failure was recorded, has been started and its
\* transform is over: it returned, or it panicked and unwound.
C4_AllStartedDespiteFailure ==
    (Returned /\ ret \notin {"nil", "canceled"}) =>
        /\ \A i \in 1..N : pc[i] \in {"done", "dead"}
        /\ \A p \in Paths : hist.calls[p] = Count(p)

\* An item was admitted after a failure was recorded, and Process returned
\* that failure.
C4_Witness ==
    /\ Returned /\ ~cancelled
    /\ hist.lateAdmit
    /\ ret \notin {"nil", "canceled"}

\* C5: with the context cancelled before the first admission and a
\* non-empty list, no transform is invoked and Process returns the
\* cancellation error.
C5_PreCancelled ==
    (hist.preCancel /\ N > 0) =>
        /\ \A p \in Paths : hist.calls[p] = 0
        /\ Returned => ret = "canceled"

\* C6: when Process returns the cancellation error, no admitted transform
\* is still running.
C6_DrainedOnCancel ==
    (Returned /\ ret = "canceled") => InFlight = {}

\* C7: no item is admitted after the context was cancelled.
C7_NoAdmitAfterCancel == ~hist.cancelAdmit

\* C8: for an empty list Process takes no slot, invokes no transform and
\* returns nil, for every ceiling and cancelled or not.
C8_EmptyList ==
    N = 0 =>
        /\ cur = 0
        /\ \A p \in Paths : hist.calls[p] = 0
        /\ Returned => ret = "nil"

\* An empty list returned nil with the context cancelled and no slot at all.
C8_Witness ==
    /\ N = 0 /\ cancelled /\ concurrency = 0
    /\ Returned /\ ret = "nil"

\* C9: the transform is never invoked more often for a path than the list
\* names it, and in a run that is never cancelled it has been invoked, at
\* return, exactly once per position (duplicates each count).
C9_OncePerPosition ==
    /\ \A p \in Paths : hist.calls[p] <= Count(p)
    /\ (Returned /\ ~cancelled) =>
          \A p \in Paths : hist.calls[p] = Count(p)

\* A list with a duplicate and another path was run to the end.
C9_Witness ==
    /\ Returned /\ ~cancelled /\ N = 3
    /\ images[1] = images[3] /\ images[1] # images[2]
    /\ hist.calls[images[1]] = 2 /\ hist.calls[images[2]] = 1

\* The condition under which an item is to be skipped.
SkipCond(s, d) ==
    ~force /\ d.stat = "ok" /\ s.stat = "ok" /\ d.mtime > s.mtime

\* The step is the transform of position i.
Transforms(i) == pc[i] = "running" /\ hist'.out[i] # "none"

\* C10: a transform skips its item iff force is off, the destination exists
\* and is strictly newer than the source; a skip touches no file and
\* returns nil; a missing destination, a destination not newer than the
\* source, and force each lead to processing.
C10_SkipIff ==
    [][\A i \in 1..N : Transforms(i) =>
        LET s == src[images[i]]
            d == dst[images[i]] IN
        /\ (hist'.out[i] = "skip") <=> SkipCond(s, d)
        /\ hist'.out[i] = "skip" => (dst' = dst /\ result'[i] = "nil")
        /\ d.stat = "notexist" => hist'.out[i] = "run"
        /\ (d.stat = "ok" /\ s.stat = "ok" /\ d.mtime <= s.mtime)
              => hist'.out[i] = "run"
        /\ force => hist'.out[i] = "run"]_vars

\* C11: whenever the stat of the source or of the destination fails, for
\* whatever reason, the transform neither skips nor crashes: it goes on to
\* the pipeline.
C11_StatErrorsFailOpen ==
    [][\A i \in 1..N : Transforms(i) =>
        LET s == src[images[i]]
            d == dst[images[i]] IN
        (s.stat # "ok" \/ d.stat # "ok") =>
            (hist'.out[i] = "run" /\ pc'[i] # "panicked")]_vars

\* The options of the builder that carry name.
Given(name) == {i \in 1..Len(builder.opts) : builder.opts[i].name = name}

\* The last option of the builder that carries name; Given(name) # {}.
Last(name) ==
    builder.opts[CHOOSE i \in Given(name) : \A j \in Given(name) : j <= i]

\* C12: in a Processor returned by New, force is what the last WithForce
\* said (false without one) and white is what the last WithWhiteBackground
\* said (false without one), in whatever order the options came.
C12_ForceWhiteIndependent ==
    builder.out = "ok" =>
        /\ builder.p.force =
              IF Given("WithForce") = {} THEN FALSE ELSE Last("WithForce").b
        /\ builder.p.white =
              IF Given("WithWhiteBackground") = {} THEN FALSE
              ELSE Last("WithWhiteBackground").b

\* WithWhiteBackground(true) came before WithForce(false), and the
\* returned Processor is white and not forced.
C12_Witness ==
    /\ builder.out = "ok" /\ Len(builder.opts) >= 2
    /\ builder.opts[1] = [name |-> "WithWhiteBackground", b |-> TRUE,
                          n |-> 0, s |-> <<>>]
    /\ builder.opts[2] = [name |-> "WithForce", b |-> FALSE, n |-> 0,
                          s |-> <<>>]
    /\ builder.p.white /\ ~builder.p.force

ErrorKinds == {"opening", "decoding", "creating", "encoding"}

\* C13: an error of a transform that Process returns is of one of the four
\* kinds, differs from the cancellation error, and names the failing item.
C13_ErrorNamesItem ==
    (Returned /\ ret \notin {"nil", "none", "canceled"}) =>
        (ret \in ErrorKinds /\ CauseNamesFile(ret))

\* An option New has to reject: a ratio without two parsable, non-zero
\* parts, a quality outside 0..100, a negative padding.
Invalid(o) ==
    \/ o.name = "WithAspect" /\
          (Len(o.s) < 2 \/ \E j \in 1..Len(o.s) : ~o.s[j].ok \/ o.s[j].val = 0)
    \/ o.name = "WithQuality" /\ o.n \notin 0..100
    \/ o.name = "WithPadding" /\ o.n < 0

\* C14: the first invalid option New applies makes New return an error,
\* there and then.
C14_InvalidRejected ==
    \A i \in 1..Len(builder.opts) :
        (i < builder.k /\ Invalid(builder.opts[i])) =>
            (builder.out = "err" /\ builder.k = i + 1)

\* C15: a Processor returned by New has a concurrency of at least 1.
C15_CeilingPositive ==
    builder.out = "ok" => builder.p.concurrency >= 1

\* C16: a Processor returned by New has, for every field no option was
\* given for, the default: ratio 16:9, quality 90, black, padding 0, no
\* force.
C16_Defaults ==
    builder.out = "ok" =>
        /\ Given("WithAspect") = {} =>
              (builder.p.aspect.den # 0 /\
               builder.p.aspect.num * 9 = builder.p.aspect.den * 16)
        /\ Given("WithQuality") = {} => builder.p.quality = 90
        /\ Given("WithWhiteBackground") = {} => ~builder.p.white
        /\ Given("WithPadding") = {} => builder.p.padding = 0
        /\ Given("WithForce") = {} => ~builder.p.force

\* C17: the canvas, after the ratio and the padding are applied, is at least
\* as wide and as high as the source.
C17_CanvasContainsSource ==
    layout.stage \in {"padded", "centered"} =>
        (layout.db.x1 >= layout.sb.x1 /\ layout.db.y1 >= layout.sb.y1)

\* C18: padding of n percent maps the canvas W x H to
\* (trunc(W * (100 + n) / 100), trunc(H * (100 + n) / 100)) at the origin,
\* n = 0 leaves it unchanged, and the placement rectangle has its corner at
\* half the padded canvas minus half the source.
C18_PaddingExact ==
    /\ layout.stage \in {"padded", "centered"} =>
          /\ layout.db.x0 = 0 /\ layout.db.y0 = 0
          /\ layout.db.x1 = (layout.ab.x1 * (100 + layout.n)) \div 100
          /\ layout.db.y1 = (layout.ab.y1 * (100 + layout.n)) \div 100
          /\ layout.n = 0 => layout.db = layout.ab
    /\ layout.stage = "centered" =>
          /\ layout.dr.x0 = (layout.db.x1 \div 2) - (layout.sb.x1 \div 2)
          /\ layout.dr.y0 = (layout.db.y1 \div 2) - (layout.sb.y1 \div 2)

\* C19: with a ceiling of at least 1 and a context that is never cancelled,
\* if every transform returns (none panics) then eventually every item has
\* been admitted and has completed, Process has returned and no slot is held.
C19_EventuallyReturns ==
    <>(\/ concurrency < 1
       \/ crashed
       \/ (Returned /\ cur = 0 /\ \A i \in 1..N : pc[i] = "done"))

\* Three items went through a single slot and Process returned.
C19_Witness ==
    /\ concurrency = 1 /\ N = 3
    /\ Returned /\ cur = 0
    /\ \A i \in 1..N : pc[i] = "done"

\* C20: admission follows the list: a position is admitted only after every
\* earlier position was.
C20_AdmissionFIFO ==
    \A i \in 1..N : \A j \in 1..N :
        (i < j /\ pc[j] # "idle") => pc[i] # "idle"

\* The second item completed while the first still runs and the third waits.
C20_Witness ==
    /\ N = 3
    /\ pc[1] = "running" /\ pc[2] = "done" /\ pc[3] = "idle"

\* C21: nothing but its own return takes a transform out of flight: a step
\* that cancels the context, records a failure or makes Process return
\* leaves every admitted transform where it is and every slot held; an
\* admitted transform leaves flight only with its own outcome, giving back
\* exactly one slot whether its result is nil or an error (or, C11, it
\* panics); the slots held are always one per transform in flight.
C21_NeverInterrupted ==
    [][/\ (cancelled' # cancelled \/ err' # err \/ pcMain' # pcMain) =>
             /\ \A i \in 1..N : pc[i] \in Holding => pc'[i] = pc[i]
             /\ cur' = cur
       /\ \A i \in 1..N : pc[i] \in Holding =>
             \/ pc'[i] \in Holding /\ (pc'[i] # pc[i] => cur' = cur)
             \/ /\ pc'[i] = "returned"
                /\ hist'.out[i] \in {"skip", "run"}
                /\ cur' = cur - 1
             \/ pc'[i] = "panicked" /\ hist'.out[i] = "panic"
       /\ cur' = Cardinality({i \in 1..N : pc'[i] \in Holding})]_vars

\* The second item was admitted with the context cancelled and the failure
\* of the first recorded; it ran to its end with a result of its own and
\* gave its slot back, and Process returned the cancellation error.
C21_Witness ==
    /\ N = 3 /\ pc[3] = "idle"
    /\ hist.cancelAdmit /\ hist.lateAdmit
    /\ result[1] # "nil" /\ err = result[1]
    /\ pc[2] = "done" /\ hist.out[2] = "run" /\ result[2] = "nil"
    /\ cur = 0
    /\ Returned /\ ret = "canceled"

\* C22 (as claimed): with f = max(a, b) / min(a, b), the canvas keeps the
\* larger side of the source and its other side is larger * f truncated,
\* whichever way round the ratio is written.
C22_NormalizedFactor ==
    layout.stage \in {"aspect", "padded", "centered"} =>
        LET w == layout.sb.x1
            h == layout.sb.y1
            hi == IF layout.a.num >= layout.a.den
                  THEN layout.a.num ELSE layout.a.den
            lo == IF layout.a.num >= layout.a.den
                  THEN layout.a.den ELSE layout.a.num IN
        \/ w >= h /\ layout.ab = Rect(0, 0, w, (w * hi) \div lo)
        \/ h >= w /\ layout.ab = Rect(0, 0, (h * hi) \div lo, h)

\* The ratios for which the float64 result is the exact quotient truncated.
ExactRatios ==
    {Ratio(16, 9), Ratio(9, 16), Ratio(1, 1), Ratio(4, 3), Ratio(3, 4)}

\* C22 (amended): the canvas follows the ratio a:b as written.  A source
\* wider than high keeps its width and gets the height trunc(w * b / a);
\* any other source keeps its height and gets the width trunc(h * a / b);
\* where the quotient is a whole number the derived side may be one less
\* (float64), which it is not for 16:9, 9:16, 1:1, 4:3 and 3:4; with a = b
\* the canvas is the square of the larger side.
C22_RatioAsWritten ==
    layout.stage \in {"aspect", "padded", "centered"} =>
        LET w == layout.sb.x1
            h == layout.sb.y1
            a == layout.a.num
            b == layout.a.den
            cw == layout.ab.x1
            ch == layout.ab.y1 IN
        /\ layout.ab.x0 = 0 /\ layout.ab.y0 = 0
        /\ w > h =>
              /\ cw = w
              /\ \/ ch = (w * b) \div a
                 \/ ch = (w * b) \div a - 1 /\ (w * b) % a = 0
                       /\ layout.a \notin ExactRatios
        /\ w <= h =>
              /\ ch = h
              /\ \/ cw = (h * a) \div b
                 \/ cw = (h * a) \div b - 1 /\ (h * a) % b = 0
                       /\ layout.a \notin ExactRatios
        /\ a = b => (cw = ch /\ cw = IF w > h THEN w ELSE h)

\* An 8 x 4 source: 9:16 makes its canvas 8 x 14 (14.2 truncated).
C22_Witness ==
    /\ layout.stage = "aspect"
    /\ layout.sb = Rect(0, 0, 8, 4) /\ layout.a = Ratio(9, 16)
    /\ layout.ab = Rect(0, 0, 8, 14)

\* C23: for a canvas at least as wide and as high as the source, the
\* placement rectangle has its min corner at (dw/2 - sw/2, dh/2 - sh/2) in
\* truncating division, has the width and height of the source, and lies
\* inside the canvas.
C23_CenteredExact ==
    (/\ layout.stage = "centered"
     /\ layout.db.x1 >= layout.sb.x1
     /\ layout.db.y1 >= layout.sb.y1) =>
        LET sw == layout.sb.x1
            sh == layout.sb.y1
            dw == layout.db.x1
            dh == layout.db.y1 IN
        /\ layout.dr.x0 = Trunc(dw, 2) - Trunc(sw, 2)
        /\ layout.dr.y0 = Trunc(dh, 2) - Trunc(sh, 2)
        /\ layout.dr.x1 = layout.dr.x0 + sw
        /\ layout.dr.y1 = layout.dr.y0 + sh
        /\ layout.dr.x0 >= 0 /\ layout.dr.y0 >= 0
        /\ layout.dr.x1 <= dw /\ layout.dr.y1 <= dh

\* C24: in a second run without force over unchanged sources, an item whose
\* every transform of the first run returned an error, and which the
\* second run has not transformed yet, is not skipped.
C24_FailedNeverSkipped ==
    [][\A i \in 1..N :
        (/\ rerun.round = 2 /\ ~force
         /\ Transforms(i)
         /\ hist.calls[images[i]] = 0
         /\ \A j \in 1..N :
               images[j] = images[i] => rerun.result[j] # "nil")
            => hist'.out[i] # "skip"]_vars

\* C25: after a first run without force in which every item succeeded,
\* over sources older than that run, a second run over the same list and
\* sources skips every item, rewrites no destination and returns nil if
\* it is without force, and processes every item if it is with force.
C25_RerunIdempotent ==
    (/\ rerun.round = 2 /\ ~rerun.force
     /\ \A i \in 1..N : rerun.result[i] = "nil"
     /\ \A i \in 1..N : src[images[i]].mtime < now - 1) =>
        /\ ~force =>
              /\ \A i \in 1..N : hist.out[i] \in {"none", "skip"}
              /\ dst = rerun.dst
              /\ Returned => (ret = "nil" /\
                              \A i \in 1..N : hist.out[i] = "skip")
        /\ force =>
              /\ \A i \in 1..N : hist.out[i] \in {"none", "run"}
              /\ Returned => \A i \in 1..N : hist.out[i] = "run"

\* Two items were written by the first run and skipped by the second.
C25_Witness ==
    /\ rerun.round = 2 /\ ~rerun.force /\ ~force
    /\ N = 2 /\ images[1] # images[2]
    /\ \A i \in 1..N : rerun.result[i] = "nil" /\ rerun.out[i] = "run"
    /\ Returned /\ ret = "nil"
    /\ \A i \in 1..N : hist.out[i] = "skip"
    /\ dst = rerun.dst
    /\ \A i \in 1..N : dst[images[i]].mtime = now - 1

====
